---- MODULE Spec2Model ----
\* Model of Poco::Data::Binding<T> and its container specialisations
\* (Data/include/Poco/Data/Binding.h): one caller-owned variable, one
\* Binding built over it, the Binder attached to it and the Type Mapper
\* (TypeHandler) calls the Binding makes.
EXTENDS Integers, Sequences, FiniteSets, TLC

\* ---------------------------------------------------------------- bounds
\* The longest collection the caller binds, and the number of bind() calls
\* followed on a scalar Binding between two resets.
MaxLen == 2
MaxBinds == 2
\* The number of times the caller assigns to its variable while the Binding lives.
MaxMutations == 1

\* ------------------------------------------------------------ vocabulary
PD_IN == "PD_IN"
PD_OUT == "PD_OUT"
PD_IN_OUT == "PD_IN_OUT"
Direction == {PD_IN, PD_OUT, PD_IN_OUT}

ScalarKinds == {"scalar", "cstr"}
SeqKinds == {"vector", "list", "deque"}
SetKinds == {"set", "multiset"}
MapKinds == {"map", "multimap"}
BoolVector == "vbool"
GenericContainerKinds == SeqKinds \cup SetKinds \cup MapKinds
ContainerKinds == GenericContainerKinds \cup {BoolVector}
Kinds == ScalarKinds \cup ContainerKinds

Builds == {"debug", "release"}
\* Binding is a template over the element type and never inspects a value,
\* a name or a column position: two values, two keys (ordered, and apart
\* from the values), one name besides the empty one and one start column
\* tell apart everything the code can do with them.
Names == {"p"}
Values == {10, 20}
Keys == {101, 102}
Positions == {0}
ColumnCounts == {1, 2}
NullPtr == 0

SeqsUpTo(S, n) == UNION {[1..m -> S] : m \in 0..n}

\* The entries a map holds: its mapped values run against the key order.
Pairs == {[first |-> 101, second |-> 20], [first |-> 102, second |-> 10]}

\* The contents a caller's variable of each shape can hold.  Ordered
\* containers iterate in key order: a set has strictly increasing elements,
\* a multiset non-decreasing ones, a map strictly increasing keys, a
\* multimap non-decreasing keys.
Contents(k) ==
    CASE k = "scalar" -> Values
      [] k = "cstr" -> Values \cup {NullPtr}
      [] k \in SeqKinds -> SeqsUpTo(Values, MaxLen)
      [] k = BoolVector -> SeqsUpTo(BOOLEAN, MaxLen)
      [] k = "set" ->
            {s \in SeqsUpTo(Values, MaxLen) : \A i \in 1..(Len(s) - 1) : s[i] < s[i + 1]}
      [] k = "multiset" ->
            {s \in SeqsUpTo(Values, MaxLen) : \A i \in 1..(Len(s) - 1) : s[i] <= s[i + 1]}
      [] k = "map" ->
            {s \in SeqsUpTo(Pairs, MaxLen) :
                \A i \in 1..(Len(s) - 1) : s[i].first < s[i + 1].first}
      [] k = "multimap" ->
            {s \in SeqsUpTo(Pairs, MaxLen) :
                \A i \in 1..(Len(s) - 1) : s[i].first <= s[i + 1].first}

\* The values a Type Mapper call can be handed for each shape.
Bindable(k) == IF k = BoolVector THEN BOOLEAN ELSE Values

VARIABLES
    build,      \* "debug": poco_assert_dbg is compiled in; "release": it is not
    kind,       \* the shape of the caller's variable (the template argument)
    cols,       \* TypeHandler<>::size() of the element type and of the key type
    src,        \* the caller's variable
    made,       \* "no": not constructed, "yes": a Binding exists, "failed": the constructor threw
    self,       \* the Binding's members
    binder,     \* getBinder() != 0
    round,      \* history: Type Mapper deliveries since construction or the last reset()
    hist,       \* history: facts about construction and the previous drain
    lastCall,   \* the Type Mapper call of the last operation, if it made one
    last,       \* the last operation, the exception it raised, the Binder call it made
    ub          \* undefined behaviour has been executed

vars == <<build, kind, cols, src, made, self, binder, round, hist, lastCall, last, ub>>

NoBinding ==
    [name |-> "", direction |-> PD_IN, copy |-> FALSE,
     pVal |-> <<>>, val |-> NullPtr, deq |-> <<>>, bound |-> FALSE,
     begin |-> 1, end |-> 1, stale |-> FALSE]

NewRound == [delivered |-> <<>>, violated |-> FALSE, dirty |-> FALSE, late |-> FALSE]

NoHist ==
    [ctorRows |-> 0, ctorSrc |-> <<>>, ctorDirection |-> PD_IN,
     mutations |-> 0, prevValid |-> FALSE, prevSeq |-> <<>>]

\* The operations that construct a Binding.
CtorOps == {"new", "use", "in", "out", "io", "bind"}

Did(op, err, bop) == [op |-> op, err |-> err, binderOp |-> bop]

Init ==
    /\ build \in Builds
    /\ kind \in Kinds
    /\ cols \in [elem : ColumnCounts, key : ColumnCounts]
    /\ cols.key # cols.elem
    /\ src \in Contents(kind)
    /\ made = "no"
    /\ self = NoBinding
    /\ binder = FALSE
    /\ round = NewRound
    /\ hist = NoHist
    /\ lastCall = <<>>
    /\ last = Did("init", "none", "none")
    /\ ub = FALSE

\* ------------------------------------------------------- the Type Mapper
\* TypeHandler<T>::size(): the number of columns one value of the type takes.
\* "K" is a map's key type; "T" and "V" are the element and mapped-value types.
TypeHandlerSize(t) == IF t = "K" THEN cols.key ELSE cols.elem

\* ------------------------------------------------------------- accessors
IsScalar == kind \in ScalarKinds
IsContainer == kind \in ContainerKinds

\* AbstractBinding::getDirection(), AbstractBinding::name()
getDirection(b) == b.direction
getName(b) == b.name

\* The collection the cursor walks: the private copy, the caller's
\* collection, or (vector<bool>) the deque filled at construction.
Iterated(b) ==
    IF kind = BoolVector THEN b.deq
    ELSE IF b.copy THEN b.pVal[1] ELSE src

\* Mutant of Val: _val names the caller's variable also when copy is set.
ValAlwaysSource(b) == IF kind = "cstr" THEN b.val ELSE src

\* The collection or value the member _val names.
Val(b) ==
    CASE kind = "cstr" -> b.val
      [] kind = BoolVector -> src
      [] OTHER -> IF b.copy THEN b.pVal[1] ELSE src

\* Mutant of Deref: a map's bind() passes _begin->first.
DerefFirst(b) ==
    IF kind \in MapKinds THEN Iterated(b)[b.begin].first ELSE Iterated(b)[b.begin]

\* What bind() hands to the Type Mapper for the element under the cursor:
\* *_begin, or _begin->second for map and multimap.
Deref(b) ==
    IF kind \in MapKinds THEN Iterated(b)[b.begin].second ELSE Iterated(b)[b.begin]

numOfColumnsHandled(b) ==
    CASE kind = "cstr" -> 1
      [] kind = BoolVector -> 1
      [] kind \in MapKinds -> TypeHandlerSize("V")
      [] OTHER -> TypeHandlerSize("T")

numOfRowsHandled(b) == IF IsScalar THEN 1 ELSE Len(Val(b))

\* canBind(): !_bound for the scalar shapes, _begin != _end for containers.
\* With invalidated iterators (b.stale) the comparison is not defined.
canBind(b) == IF IsScalar THEN ~b.bound ELSE b.begin # b.end

\* Whether the Binding reads the caller's variable each time it is used
\* (_val is a reference to it) rather than data of its own.
References(b) == kind \notin {"cstr", BoolVector} /\ ~b.copy

\* ---------------------------------------------------------- construction
\* Mutant of EmptyCheck: the empty collection is refused for every direction.
EmptyCheckAnyDirection(direction, rows) == rows = 0

\* The generic containers' constructor check.
EmptyCheck(direction, rows) == PD_IN = direction /\ rows = 0

\* Mutant of BoolDirectionCheck: only PD_OUT is refused.
BoolDirectionCheckOutOnly(direction) == PD_OUT = direction

\* The vector<bool> constructor's direction check.
BoolDirectionCheck(direction) == PD_IN # direction

\* The vector<bool> constructor's empty check.
BoolEmptyCheck(rows) == rows = 0

\* Mutant of NullCheck: the pointer is used unchecked.
NullCheckSkipped(p) == FALSE

\* The const char* constructor's initialiser: pVal ? pVal : throw.
NullCheck(p) == p = NullPtr

\* The exception the constructor raises over the caller's variable, if any.
CtorThrows(direction) ==
    CASE kind = "scalar" -> "none"
      [] kind = "cstr" ->
            IF NullCheck(src) THEN "NullPointerException" ELSE "none"
      [] kind = BoolVector ->
            IF BoolDirectionCheck(direction) THEN "BindingException"
            ELSE IF BoolEmptyCheck(Len(src)) THEN "BindingException"
            ELSE "none"
      [] OTHER ->
            IF EmptyCheck(direction, Len(src)) THEN "BindingException" ELSE "none"

\* The members after the constructor's initialiser list.
Built(name, direction, copy) ==
    [name |-> name, direction |-> direction, copy |-> copy,
     pVal |-> IF copy /\ kind \notin {"cstr", BoolVector} THEN <<src>> ELSE <<>>,
     val |-> IF kind = "cstr" THEN src ELSE NullPtr,
     deq |-> IF kind = BoolVector THEN [i \in 1..Len(src) |-> src[i]] ELSE <<>>,
     bound |-> FALSE,
     begin |-> 1,
     end |-> IF IsContainer THEN Len(src) + 1 ELSE 1,
     stale |-> FALSE]

\* new Binding<T>(val, name, direction, copy).  When the constructor throws
\* no Binding exists; self then only records the arguments of the call.
Construct(via, name, direction, copy) ==
    /\ made = "no"
    /\ LET e == CtorThrows(direction) IN
        /\ made' = IF e = "none" THEN "yes" ELSE "failed"
        /\ self' = IF e = "none"
                     THEN Built(name, direction, copy)
                     ELSE [NoBinding EXCEPT !.name = name,
                                            !.direction = direction, !.copy = copy]
        /\ last' = Did(via, e, "none")
    /\ hist' = [NoHist EXCEPT !.ctorRows = IF IsScalar THEN 1 ELSE Len(src),
                              !.ctorSrc = IF copy \/ kind \in {"cstr", BoolVector}
                                            THEN src ELSE <<>>,
                              !.ctorDirection = direction]
    /\ UNCHANGED <<build, kind, cols, src, binder, round, lastCall, ub>>

\* A direct constructor call.  vector<bool>'s constructor has no copy argument.
New(name, direction, copy) ==
    /\ (kind = BoolVector => ~copy)
    /\ Construct("new", name, direction, copy)

Use(name) == Construct("use", name, PD_IN, FALSE)

In(name) == Construct("in", name, PD_IN, FALSE)

\* Mutant of Out: out() passes PD_IN.
OutAsIn == Construct("out", "", PD_IN, FALSE)

Out == Construct("out", "", PD_OUT, FALSE)

Io == Construct("io", "", PD_IN_OUT, FALSE)

\* bind(t, name) and bind(t): the four-argument constructor, which
\* vector<bool> does not have.
BindOf(name) ==
    /\ kind # BoolVector
    /\ Construct("bind", name, PD_IN, TRUE)

\* AbstractBinding::setBinder()
SetBinder ==
    /\ made = "yes"
    /\ ~ub
    /\ ~binder
    /\ binder' = TRUE
    /\ last' = Did("setBinder", "none", "none")
    /\ lastCall' = <<>>
    /\ UNCHANGED <<build, kind, cols, src, made, self, round, hist, ub>>

\* ------------------------------------------------------------------ bind
\* Mutant of AfterBind: a container's bind() without ++_begin.
AfterBindNoAdvance(b) == IF IsScalar THEN [b EXCEPT !.bound = TRUE] ELSE b

\* The members after a successful bind(): _bound = true, or ++_begin.
AfterBind(b) ==
    IF IsScalar THEN [b EXCEPT !.bound = TRUE] ELSE [b EXCEPT !.begin = @ + 1]

\* What bind() passes to the Type Mapper: _val, or the element under the cursor.
BoundValue(b) == IF IsScalar THEN Val(b) ELSE Deref(b)

\* Mutant of BinderAsserted: bind() without the Binder assertion.
BinderNeverAsserted == FALSE

\* poco_assert_dbg(getBinder() != 0)
BinderAsserted == ~binder

\* poco_assert_dbg(canBind()): in the containers' bind() only; the scalar
\* shapes' bind() has no such line.
CursorAsserted(b) == IsContainer /\ ~canBind(b)

\* Mutant of AfterCall: the cursor is moved whether or not the call returned.
AfterCallAlways(b, ok) == AfterBind(b)

\* The members after the Type Mapper call of bind(): the statement after
\* the call runs only when the call returns (ok), not when it throws.
AfterCall(b, ok) == IF ok THEN AfterBind(b) ELSE b

\* TypeHandler<T>::bind(pos, value, getBinder(), getDirection()) returning
\* (ok) or throwing (~ok).
TypeHandlerBind(pos, ok) ==
    /\ lastCall' = <<[pos |-> pos, val |-> BoundValue(self),
                     direction |-> getDirection(self), ok |-> ok]>>
    /\ self' = AfterCall(self, ok)
    /\ round' = [round EXCEPT
                    !.delivered = IF ok THEN Append(@, BoundValue(self)) ELSE @,
                    !.violated = @ \/ ~canBind(self)]
    /\ last' = Did("Bind", IF ok THEN "none" ELSE "TypeHandlerException",
                   IF binder THEN "bind" ELSE "none")
    /\ ub' = ub

\* A failed poco_assert_dbg in a debug build: nothing else happens.
AssertionViolation ==
    /\ last' = Did("Bind", "AssertionViolationException", "none")
    /\ lastCall' = <<>>
    /\ UNCHANGED <<self, round, ub>>

\* bind() through an invalidated iterator or the end iterator, or a Type
\* Mapper that uses the null Binder it is handed: the Type Mapper may or
\* may not be reached, with any value, and the cursor may or may not move.
Undefined(pos) ==
    /\ ub' = TRUE
    /\ last' = Did("Bind", "undefined", "none")
    /\ \E invoked \in BOOLEAN, g \in Bindable(kind), adv \in BOOLEAN :
        /\ lastCall' = IF invoked
                         THEN <<[pos |-> pos, val |-> g,
                                 direction |-> getDirection(self), ok |-> TRUE]>>
                         ELSE <<>>
        /\ round' = [round EXCEPT !.delivered = IF invoked THEN Append(@, g) ELSE @,
                                  !.violated = TRUE]
        /\ self' = IF adv THEN AfterBind(self) ELSE self

Bind(pos) ==
    /\ made = "yes"
    /\ ~ub
    /\ (IsScalar => Len(round.delivered) < MaxBinds)
    /\ IF BinderAsserted /\ build = "debug"
         THEN AssertionViolation
       ELSE IF IsContainer /\ self.stale
         THEN Undefined(pos)
       ELSE IF CursorAsserted(self)
         THEN IF build = "debug" THEN AssertionViolation ELSE Undefined(pos)
       ELSE \/ \E ok \in BOOLEAN : TypeHandlerBind(pos, ok)
            \/ BinderAsserted /\ Undefined(pos)
    /\ UNCHANGED <<build, kind, cols, src, made, binder, hist>>

\* ----------------------------------------------------------------- reset
\* Mutant of AfterReset: a container's reset() that leaves the cursor alone.
AfterResetNoRewind(b) ==
    IF IsScalar THEN [b EXCEPT !.bound = FALSE] ELSE [b EXCEPT !.stale = FALSE]

\* Mutant of AfterReset: a container's reset() that takes _begin again but not _end.
AfterResetKeepEnd(b) ==
    IF IsScalar
      THEN [b EXCEPT !.bound = FALSE]
      ELSE [b EXCEPT !.begin = 1, !.stale = FALSE]

\* The members after reset(): _bound = false, or _begin and _end taken
\* again from the collection.
AfterReset(b) ==
    IF IsScalar
      THEN [b EXCEPT !.bound = FALSE]
      ELSE [b EXCEPT !.begin = 1, !.end = Len(Iterated(b)) + 1, !.stale = FALSE]

\* Mutant of AfterFailedReset: the pointer is checked before _bound is cleared.
AfterFailedResetUnchanged(b) == b

\* The members after a reset() that throws at poco_check_ptr(pBinder):
\* _bound = false has run before it.
AfterFailedReset(b) == AfterReset(b)

\* Mutant of ResetsBinder: no reset() goes on to the Binder.
ResetsBinderNever == FALSE

\* Mutant of ResetsBinder: the containers' reset() goes on to the Binder too.
ResetsBinderAlways == TRUE

\* Whether reset() goes on to the Binder: poco_check_ptr(pBinder);
\* pBinder->reset() in the scalar shapes, nothing in the containers.
ResetsBinder == IsScalar

Reset ==
    /\ made = "yes"
    /\ ~ub
    /\ self' = IF ResetsBinder /\ ~binder THEN AfterFailedReset(self) ELSE AfterReset(self)
    /\ last' = IF ~ResetsBinder THEN Did("reset", "none", "none")
               ELSE IF binder THEN Did("reset", "none", "reset")
               ELSE Did("reset", "NullPointerException", "none")
    /\ lastCall' = <<>>
    /\ round' = [NewRound EXCEPT !.late = round.dirty]
    /\ hist' = LET full == ~canBind(self) /\ ~round.violated /\ ~round.dirty IN
               [hist EXCEPT !.prevValid = full,
                            !.prevSeq = IF full THEN round.delivered ELSE <<>>]
    /\ UNCHANGED <<build, kind, cols, src, made, binder, ub>>

\* ---------------------------------------------------------------- caller
\* The caller assigns new contents to its variable.  Assignment invalidates
\* every iterator into a collection.
Without(s, i) == SubSeq(s, 1, i - 1) \o SubSeq(s, i + 1, Len(s))

\* The contents the caller assigns next: for a collection, the present
\* ones with one element more or one less, or none at all.
Refills ==
    IF IsScalar THEN Contents(kind) \ {src}
    ELSE {c \in Contents(kind) \ {src} :
            \/ c = <<>>
            \/ \E i \in 1..Len(c) : Without(c, i) = src
            \/ \E i \in 1..Len(src) : Without(src, i) = c}

Mutate ==
    /\ made = "yes"
    /\ ~ub
    /\ hist.mutations < MaxMutations
    /\ \E c \in Refills : src' = c
    /\ self' = IF References(self) /\ IsContainer THEN [self EXCEPT !.stale = TRUE] ELSE self
    /\ round' = IF References(self) THEN [round EXCEPT !.dirty = TRUE] ELSE round
    /\ hist' = [hist EXCEPT !.mutations = @ + 1,
                            !.prevValid = IF References(self) THEN FALSE ELSE @,
                            !.prevSeq = IF References(self) THEN <<>> ELSE @]
    /\ last' = Did("mutate", "none", "none")
    /\ lastCall' = <<>>
    /\ UNCHANGED <<build, kind, cols, made, binder, ub>>

Next ==
    \/ \E name \in Names \cup {""}, direction \in Direction, copy \in BOOLEAN :
          New(name, direction, copy)
    \/ \E name \in Names : Use(name)
    \/ \E name \in Names : In(name)
    \/ Out
    \/ Io
    \/ \E name \in Names : BindOf(name)
    \/ SetBinder
    \/ \E pos \in Positions : Bind(pos)
    \/ Reset
    \/ Mutate

Spec == Init /\ [][Next]_vars

\* ================================================================ claims
IsPrefix(s, t) == Len(s) <= Len(t) /\ s = SubSeq(t, 1, Len(s))

\* The values a drain of collection c hands over, in iteration order.
RowValues(c) ==
    [i \in 1..Len(c) |-> IF kind \in MapKinds THEN c[i].second ELSE c[i]]

Exists == made = "yes" /\ ~ub

\* C1: a container Binding built with PD_IN over n > 0 elements, its source
\* left alone, reports n rows, and canBind() holds exactly while fewer
\* than n bind() calls have succeeded since construction or the last reset.
C1_RowsDrainIn ==
    (Exists /\ IsContainer /\ getDirection(self) = PD_IN /\ hist.mutations = 0)
    => /\ hist.ctorRows > 0
       /\ numOfRowsHandled(self) = hist.ctorRows
       /\ Len(round.delivered) <= hist.ctorRows
       /\ canBind(self) <=> (Len(round.delivered) < hist.ctorRows)

C1_Witness ==
    /\ Exists /\ IsContainer /\ getDirection(self) = PD_IN /\ hist.mutations = 0
    /\ hist.ctorRows = 2
    /\ last.op = "Bind" /\ last.err = "none"
    /\ Len(round.delivered) = 2
    /\ ~canBind(self)

\* C2: constructing a container Binding over an empty collection with
\* PD_IN or PD_IN_OUT fails with a BindingException, for every shape.
C2_EmptyInputRejected ==
    (last.op \in CtorOps /\ IsContainer /\ Len(src) = 0
        /\ getDirection(self) \in {PD_IN, PD_IN_OUT})
    => (made = "failed" /\ last.err = "BindingException")

\* C3: constructing a non-boolean container Binding over an empty
\* collection with PD_OUT succeeds, the Binding reports no rows and cannot
\* bind, and reset() over the still empty collection leaves it so.
C3_EmptyOutAllowed ==
    /\ (last.op \in CtorOps /\ kind \in GenericContainerKinds /\ Len(src) = 0
            /\ getDirection(self) = PD_OUT)
       => (made = "yes" /\ numOfRowsHandled(self) = 0 /\ ~canBind(self))
    /\ (Exists /\ last.op = "reset" /\ kind \in GenericContainerKinds
            /\ getDirection(self) = PD_OUT /\ hist.ctorRows = 0 /\ hist.mutations = 0)
       => (numOfRowsHandled(self) = 0 /\ ~canBind(self))

C3_Witness ==
    /\ Exists /\ last.op = "reset" /\ kind \in GenericContainerKinds
    /\ getDirection(self) = PD_OUT /\ hist.ctorRows = 0 /\ hist.mutations = 0
    /\ ~canBind(self)

\* C4: after a full drain (every bind() issued while canBind() held, at
\* least one row) and reset(), with the bound data unchanged, canBind()
\* holds again and the new round hands the Type Mapper the same values in
\* the same order, ending when it has handed over as many; round after round.
C4_RestartLaw ==
    (Exists /\ hist.prevValid /\ Len(hist.prevSeq) > 0 /\ ~round.violated)
    => /\ (last.op = "reset" => canBind(self))
       /\ IsPrefix(round.delivered, hist.prevSeq)
       /\ canBind(self) <=> (Len(round.delivered) < Len(hist.prevSeq))

C4_Witness ==
    /\ Exists /\ hist.prevValid /\ ~round.violated
    /\ Len(hist.prevSeq) = 2
    /\ hist.prevSeq[1] # hist.prevSeq[2]
    /\ round.delivered = hist.prevSeq
    /\ ~canBind(self)

\* C5: a scalar Binding hands its value to the Type Mapper at most once
\* between two resets: a bind() issued while canBind() is false is refused.
C5_ScalarSingleBind ==
    (Exists /\ IsScalar) => Len(round.delivered) <= 1

\* C6: the const char* constructor given a null pointer throws
\* NullPointerException whatever the copy flag and the direction, and no
\* Binding results; given a string it succeeds and owns a copy of it.
C6_NullLiteralRejected ==
    (kind = "cstr" /\ last.op \in CtorOps)
    => IF src = NullPtr
         THEN made = "failed" /\ last.err = "NullPointerException"
         ELSE made = "yes" /\ self.val = src

C6_Witness ==
    /\ kind = "cstr" /\ last.op = "new" /\ src = NullPtr
    /\ ~self.copy /\ getDirection(self) = PD_IN_OUT
    /\ made = "failed"

\* C7: a map or multimap Binding hands the Type Mapper the mapped values of
\* its entries in key-iteration order, one per bind(), as many as it has
\* entries, never a key; its column count is that of the mapped type.
C7_MapValuesOnly ==
    (Exists /\ kind \in MapKinds /\ ~round.dirty)
    => /\ self.begin - 1 <= Len(Iterated(self))
       /\ round.delivered = SubSeq(RowValues(Iterated(self)), 1, self.begin - 1)
       /\ \A i \in 1..Len(round.delivered) : round.delivered[i] \notin Keys
       /\ (~canBind(self) => Len(round.delivered) = Len(Iterated(self)))
       /\ numOfColumnsHandled(self) = cols.elem
       /\ numOfColumnsHandled(self) # cols.key

C7_Witness ==
    /\ Exists /\ kind = "map" /\ ~round.dirty
    /\ round.delivered = <<20, 10>>
    /\ ~canBind(self)

\* C8: the vector<bool> constructor throws BindingException for PD_OUT and
\* PD_IN_OUT whatever the collection holds, and for PD_IN over an empty
\* collection, before any Binder or Type Mapper call.
C8_BoolVectorInOnly ==
    (kind = BoolVector /\ last.op \in CtorOps)
    => IF getDirection(self) # PD_IN \/ Len(src) = 0
         THEN /\ made = "failed" /\ last.err = "BindingException"
              /\ lastCall = <<>> /\ last.binderOp = "none" /\ round.delivered = <<>>
         ELSE made = "yes"

C8_Witness ==
    /\ kind = BoolVector /\ last.op \in CtorOps
    /\ getDirection(self) = PD_IN_OUT /\ Len(src) = 2
    /\ made = "failed"

\* C9: when the caller has changed the collection a reference Binding
\* walks and then called reset(), the round that follows hands over the
\* elements the collection holds since that reset(), in iteration order,
\* and canBind() holds exactly until numOfRowsHandled() of them are bound.
C9_LateBinding ==
    (Exists /\ kind \in GenericContainerKinds /\ ~self.copy
        /\ round.late /\ ~round.dirty)
    => /\ self.begin - 1 <= Len(src)
       /\ round.delivered = SubSeq(RowValues(src), 1, self.begin - 1)
       /\ canBind(self) <=> (Len(round.delivered) < numOfRowsHandled(self))

C9_Witness ==
    /\ Exists /\ kind = "vector" /\ ~self.copy /\ round.late /\ ~round.dirty
    /\ hist.ctorRows = 1
    /\ Len(src) = 2
    /\ round.delivered = RowValues(src)
    /\ ~canBind(self)

\* C10: a drained vector<bool> Binding has made numOfRowsHandled() bind()
\* calls since the start of its cursor, also after the caller has changed
\* the size of the source and after reset().
C10_BoolRowsMatchDrain ==
    (Exists /\ kind = BoolVector /\ ~canBind(self))
    => Len(round.delivered) = numOfRowsHandled(self)

\* Whether the Binding binds data of its own: a copy, the string made from
\* the const char*, or the deque made from the vector<bool>.
Owning == kind \in {"cstr", BoolVector} \/ self.copy

\* C11: an owning Binding (copy set, built by bind(), const char*,
\* vector<bool>) hands over, in every round, the values its source held at
\* construction, whatever the caller assigned to the source since; a scalar
\* Binding built by reference hands over what the caller's variable holds
\* when bind() runs.
C11_SourceNonInterference ==
    /\ (Exists /\ Owning)
       => IF IsScalar
            THEN \A i \in 1..Len(round.delivered) : round.delivered[i] = hist.ctorSrc
            ELSE /\ IsPrefix(round.delivered, RowValues(hist.ctorSrc))
                 /\ (~canBind(self) => round.delivered = RowValues(hist.ctorSrc))
    /\ (Exists /\ kind = "scalar" /\ ~self.copy /\ last.op = "Bind" /\ lastCall # <<>>)
       => lastCall[1].val = src

C11_Witness ==
    /\ Exists /\ kind = "vector" /\ self.copy
    /\ hist.mutations = 1 /\ src # hist.ctorSrc
    /\ hist.prevValid
    /\ Len(hist.ctorSrc) = 2
    /\ round.delivered = hist.ctorSrc
    /\ ~canBind(self)

Misuse == ~binder \/ (IsContainer /\ ~self.stale /\ ~canBind(self))

\* What the claim says of a refused bind(): the Type Mapper is not called
\* and the members and the deliveries are as before.
Refused ==
    /\ last'.err = "AssertionViolationException"
    /\ lastCall' = <<>>
    /\ self' = self
    /\ round'.delivered = round.delivered

\* C13 as stated: every bind() that breaks the protocol is refused.
C13_MisuseRefused ==
    [][(Exists /\ last'.op = "Bind" /\ Misuse) => Refused]_vars

\* C13, amended: in a build that compiles poco_assert_dbg in, every bind()
\* that breaks the protocol is refused.
C13_MisuseRefusedInDebug ==
    [][(Exists /\ build = "debug" /\ last'.op = "Bind" /\ Misuse) => Refused]_vars

C13_Witness ==
    /\ Exists /\ build = "debug" /\ IsContainer /\ binder
    /\ ~self.stale /\ ~canBind(self)
    /\ Len(round.delivered) = 2
    /\ last.op = "Bind" /\ last.err = "AssertionViolationException"

\* C14: in a container Binding whose collection is unchanged in the round,
\* the k bind() calls that succeeded since construction or reset() handed
\* over the first k elements, the cursor stands on element k + 1 and
\* canBind() holds exactly while k < n; and right after reset(), from any
\* position, the cursor stands on the first element with nothing handed over.
C14_PartialDrain ==
    (Exists /\ IsContainer /\ ~round.dirty)
    => /\ self.begin = Len(round.delivered) + 1
       /\ self.end = Len(Iterated(self)) + 1
       /\ round.delivered = SubSeq(RowValues(Iterated(self)), 1, Len(round.delivered))
       /\ canBind(self) <=> (Len(round.delivered) < Len(Iterated(self)))
       /\ (canBind(self) => BoundValue(self) = RowValues(Iterated(self))[Len(round.delivered) + 1])
       /\ (last.op = "reset" => self.begin = 1 /\ round.delivered = <<>>)

C14_Witness ==
    /\ Exists /\ kind = "list" /\ ~round.dirty
    /\ Len(Iterated(self)) = 2
    /\ last.op = "Bind" /\ last.err = "none"
    /\ Len(round.delivered) = 1
    /\ canBind(self)
    /\ BoundValue(self) = Iterated(self)[2]

\* C15: reset() of a scalar Binding with a Binder attached clears _bound
\* and nothing else, calls the Binder's reset(), and raises nothing; a
\* second reset() right after it leaves the members as they are.
C15_ScalarReset ==
    [][(Exists /\ IsScalar /\ binder /\ last'.op = "reset")
        => /\ self' = [self EXCEPT !.bound = FALSE]
           /\ canBind(self')
           /\ last'.binderOp = "reset"
           /\ last'.err = "none"
           /\ (last.op = "reset" => self' = self)]_vars

C15_Witness ==
    /\ Exists /\ IsScalar /\ binder
    /\ last.op = "reset" /\ last.binderOp = "reset"
    /\ hist.prevValid
    /\ canBind(self)

\* C16: when the Type Mapper call of bind() throws, the members and the
\* deliveries are as before the call, canBind() is as before, and the value
\* the call carried is the one the next bind() carries.
C16_FailedBindKeepsCursor ==
    [][(Exists /\ last'.op = "Bind" /\ last'.err = "TypeHandlerException")
        => /\ self' = self
           /\ round'.delivered = round.delivered
           /\ canBind(self') = canBind(self)
           /\ lastCall'[1].val = BoundValue(self')]_vars

C16_Witness ==
    /\ Exists /\ IsContainer
    /\ last.op = "Bind" /\ last.err = "TypeHandlerException"
    /\ Len(round.delivered) = 1
    /\ canBind(self)
    /\ lastCall[1].val = Iterated(self)[2]

\* C17: reset() of a scalar Binding with no Binder attached raises
\* NullPointerException without calling any Binder, and leaves canBind()
\* true also when the Binding was exhausted.
C17_FailedResetClears ==
    (Exists /\ IsScalar /\ ~binder /\ last.op = "reset")
    => /\ last.err = "NullPointerException"
       /\ last.binderOp = "none"
       /\ canBind(self)

C17_Witness ==
    /\ Exists /\ IsScalar /\ ~binder
    /\ last.op = "reset" /\ last.err = "NullPointerException"
    /\ hist.prevValid
    /\ canBind(self)

\* C18: reset() of a container Binding, with or without a Binder, calls
\* no Binder and raises nothing, and leaves the Binder, the collection,
\* the name, the direction and the Binding's own data as they are; reset()
\* of a scalar Binding with a Binder calls the Binder's reset().
C18_ContainerResetFrame ==
    [][(Exists /\ last'.op = "reset")
        => IF IsContainer
             THEN /\ last'.binderOp = "none"
                  /\ last'.err = "none"
                  /\ binder' = binder
                  /\ src' = src
                  /\ self' = [self EXCEPT !.begin = self'.begin, !.end = self'.end,
                                          !.stale = self'.stale]
                  /\ getName(self') = getName(self)
                  /\ getDirection(self') = getDirection(self)
             ELSE binder => last'.binderOp = "reset"]_vars

C18_Witness ==
    /\ Exists /\ IsContainer /\ ~binder
    /\ last.op = "reset" /\ last.err = "none" /\ last.binderOp = "none"
    /\ hist.prevValid
    /\ canBind(self)

====
